---- MODULE Spec2Model ----
(***************************************************************************)
(* Model of the DataProvider adapter implemented for SuiClient in          *)
(* crates/sui-graphql-rpc/src/server/sui_sdk_data_provider.rs.             *)
(*                                                                         *)
(* Every operation of the adapter is an async function: it runs up to its  *)
(* first client call, is suspended at the `.await`, and is resumed with    *)
(* the client's answer.  One action models each such stretch of code.      *)
(* Rust's Option<T> is a sequence of length 0 (None) or 1 (Some(x)); a     *)
(* Result / an outcome is a record [tag, err, val]; strings whose content  *)
(* is inspected (cursors, object identifiers) are sequences of characters. *)
(***************************************************************************)
EXTENDS Integers, Sequences, FiniteSets, TLC

VARIABLES
    pc,        \* position of the call in flight: "idle", "await_*", "done"
    op,        \* the operation called last
    args,      \* its arguments
    calls,     \* the client calls made by it so far, oldest first
    replies,   \* the client's answers to them, oldest first
    result     \* how the call ended: [kind, err, val]

vars == <<pc, op, args, calls, replies, result>>

\* ---------------------------------------------------------------- bounds
MaxPage == 2          \* longest page the client returns
MaxPayment == 1       \* most payment objects in a transaction's gas data
MaxAttrs == 2         \* most attributes in a protocol configuration
ObjectIdHexLen == 2   \* hex digits of an object identifier (64 in the chain)

\* ---------------------------------------------------------------- options, outcomes
None == <<>>
Some(x) == <<x>>
IsSome(o) == Len(o) = 1
IsNone(o) == Len(o) = 0
Unwrap(o) == o[1]

Ok(v) == [tag |-> "Ok", err |-> "", val |-> <<v>>]
Err(e) == [tag |-> "Err", err |-> e, val |-> <<>>]
Panic(w) == [tag |-> "Panic", err |-> w, val |-> <<>>]

NoResult == [kind |-> "none", err |-> "", val |-> <<>>]
Returned(v) == [kind |-> "ok", err |-> "", val |-> <<v>>]
Failed(e) == [kind |-> "err", err |-> e, val |-> <<>>]
Panicked(w) == [kind |-> "panic", err |-> w, val |-> <<>>]

\* the outcome of a helper, as the result of the call that `?`-propagates it
Propagate(o) ==
    IF o.tag = "Ok" THEN Returned(o.val[1])
    ELSE IF o.tag = "Err" THEN Failed(o.err)
    ELSE Panicked(o.err)

SeqsUpTo(S, n) == UNION {[1..k -> S] : k \in 0..n}

\* ---------------------------------------------------------------- object identifiers
HexChars == <<"0", "1", "2", "3", "4", "5", "6", "7",
              "8", "9", "a", "b", "c", "d", "e", "f">>

IsHexChar(c) == \E i \in 1..16 : HexChars[i] = c
HexCharVal(c) == (CHOOSE i \in 1..16 : HexChars[i] = c) - 1

RECURSIVE HexToNat(_)
HexToNat(s) ==
    IF Len(s) = 0 THEN 0
    ELSE 16 * HexToNat(SubSeq(s, 1, Len(s) - 1)) + HexCharVal(s[Len(s)])

RECURSIVE NatToHex(_, _)
NatToHex(n, w) ==
    IF w = 0 THEN <<>>
    ELSE Append(NatToHex(n \div 16, w - 1), HexChars[(n % 16) + 1])

\* ObjectID::from_hex_literal: the "0x" prefix is required, a short literal is
\* padded with zeros on the left, a long one or a non-hex digit is an error.
FromHexLiteral(q) ==
    IF Len(q) < 2 \/ q[1] # "0" \/ q[2] # "x" THEN Err("NotHexLiteral")
    ELSE LET hex == SubSeq(q, 3, Len(q)) IN
         IF Len(hex) > ObjectIdHexLen THEN Err("WrongLength")
         ELSE IF \E i \in 1..Len(hex) : ~IsHexChar(hex[i]) THEN Err("NotHex")
         ELSE Ok(HexToNat(hex))

\* ObjectID's Display: "0x" and the identifier's digits at full width.
ObjectIdToString(id) == <<"0", "x">> \o NatToHex(id, ObjectIdHexLen)

\* ---------------------------------------------------------------- native records
ObjectIds == {1, 2}
Addresses == {"a1"}

NativeOwners ==
    {[variant |-> v, addr |-> a] : v \in {"AddressOwner", "ObjectOwner"}, a \in Addresses}
    \cup {[variant |-> "Shared", addr |-> ""], [variant |-> "Immutable", addr |-> ""]}

NativeBcs(id) ==
    IF id = 1 THEN Some([raw |-> "MoveObject", bytes |-> "mo"])
    ELSE Some([raw |-> "Package", bytes |-> "pk"])

\* SuiObjectData.  owner and previous_transaction are Options in the client's
\* type; records whose identifier is not 1 carry both.
NativeObjects ==
    {o \in [object_id : ObjectIds,
            owner : {None} \cup {Some(w) : w \in NativeOwners},
            previous_transaction : {None, Some("ptx")}] :
        o.object_id = 1 \/ (IsSome(o.owner) /\ IsSome(o.previous_transaction))}

Version(s) == s.object_id + 10
Digest(s) == IF s.object_id = 1 THEN "dg1" ELSE "dg2"
StorageRebate(s) == s.object_id * 100

\* SuiObjectResponse: data and error are independent Options in the type.
ObjectResponses ==
    {[data |-> d, error |-> None] : d \in {None} \cup {Some(o) : o \in NativeObjects}}
    \cup {[data |-> None, error |-> Some("NotExists")],
          [data |-> Some(CHOOSE o \in NativeObjects :
                            o.object_id = 2 /\ o.owner = Some([variant |-> "Shared", addr |-> ""])),
           error |-> Some("Deleted")]}

\* ---------------------------------------------------------------- convert_obj
\* Owner::get_owner_address
GetOwnerAddress(w) ==
    IF w.variant = "AddressOwner" THEN Ok(w.addr) ELSE Err("UnexpectedOwnerType")

\* Result::ok
ResultOk(r) == IF r.tag = "Ok" THEN Some(r.val[1]) ELSE None

Base64From(bytes) == <<"base64", bytes>>

\* ObjectKindOf that takes an object-owned record for an address-owned one
ObjectKindOf_ChildAsOwned(w) ==
    CASE w.variant = "AddressOwner" -> "Owned"
      [] w.variant = "ObjectOwner" -> "Owned"
      [] w.variant = "Shared" -> "Shared"
      [] w.variant = "Immutable" -> "Immutable"

\* lines 222-229
ObjectKindOf(w) ==
    CASE w.variant = "AddressOwner" -> "Owned"
      [] w.variant = "ObjectOwner" -> "Child"
      [] w.variant = "Shared" -> "Shared"
      [] w.variant = "Immutable" -> "Immutable"

convert_obj(s) ==
    IF IsNone(s.owner) THEN Panic("convert_obj: owner.unwrap()")
    ELSE IF IsNone(s.previous_transaction)
    THEN Panic("convert_obj: previous_transaction.unwrap()")
    ELSE Ok([version |-> Version(s),
             digest |-> Digest(s),
             storage_rebate |-> StorageRebate(s),
             address |-> s.object_id,
             owner |-> ResultOk(GetOwnerAddress(Unwrap(s.owner))),
             bcs |-> IF IsSome(NativeBcs(s.object_id))
                     THEN Some(Base64From(Unwrap(NativeBcs(s.object_id)).bytes))
                     ELSE None,
             previous_transaction |-> Some(Unwrap(s.previous_transaction)),
             kind |-> Some(ObjectKindOf(Unwrap(s.owner)))])

\* ---------------------------------------------------------------- fetch_owned_objs
CursorStrings ==
    {<<"0", "x", "0", "1">>,                              \* a full identifier
     <<"0", "x", "2">>,                                   \* short: padded
     <<"0", "1">>,                                        \* no 0x prefix
     <<"0", "x", "g">>,                                   \* not a hex digit
     <<"0", "x">> \o [i \in 1..(ObjectIdHexLen + 1) |-> "0"]}  \* too long

OwnedArgs ==
    [owner : Addresses,
     first : {None, Some(2)},
     after : {None} \cup {Some(q) : q \in CursorStrings},
     last : {None, Some(1)},
     before : {None, Some(<<"0", "x", "0", "1">>)},
     filter : {None, Some("flt")}]

\* CheckCursorArgs with the first/last check ahead of the before/after check
CheckCursorArgs_FirstLastAhead(first, after, last, before) ==
    IF IsSome(first) /\ IsSome(last) THEN "CursorNoFirstLast"
    ELSE IF IsSome(before) /\ IsSome(after) THEN "CursorNoBeforeAfter"
    ELSE IF IsSome(before) \/ IsSome(last) THEN "CursorNoReversePagination"
    ELSE ""

\* CheckCursorArgs with the reverse-pagination check ahead of the first/last check
CheckCursorArgs_ReverseAhead(first, after, last, before) ==
    IF IsSome(before) /\ IsSome(after) THEN "CursorNoBeforeAfter"
    ELSE IF IsSome(before) \/ IsSome(last) THEN "CursorNoReversePagination"
    ELSE IF IsSome(first) /\ IsSome(last) THEN "CursorNoFirstLast"
    ELSE ""

\* CheckCursorArgs whose reverse-pagination check forgets `last`
CheckCursorArgs_LastForgotten(first, after, last, before) ==
    IF IsSome(before) /\ IsSome(after) THEN "CursorNoBeforeAfter"
    ELSE IF IsSome(first) /\ IsSome(last) THEN "CursorNoFirstLast"
    ELSE IF IsSome(before) THEN "CursorNoReversePagination"
    ELSE ""

\* lines 76-84: the three argument checks, in order; "" when all pass
CheckCursorArgs(first, after, last, before) ==
    IF IsSome(before) /\ IsSome(after) THEN "CursorNoBeforeAfter"
    ELSE IF IsSome(first) /\ IsSome(last) THEN "CursorNoFirstLast"
    ELSE IF IsSome(before) \/ IsSome(last) THEN "CursorNoReversePagination"
    ELSE ""

\* DecodeCursor that drops a malformed cursor instead of failing
DecodeCursor_DropMalformed(after) ==
    IF IsSome(after)
    THEN LET r == FromHexLiteral(Unwrap(after)) IN
         IF r.tag = "Ok" THEN Ok(Some(r.val[1])) ELSE Ok(None)
    ELSE Ok(None)

\* lines 90-96
DecodeCursor(after) ==
    IF IsSome(after)
    THEN LET r == FromHexLiteral(Unwrap(after)) IN
         IF r.tag = "Ok" THEN Ok(Some(r.val[1])) ELSE Err("InvalidCursor")
    ELSE Ok(None)

\* lines 104-117: try_for_each stops at the first item that fails
RECURSIVE CheckPageFrom(_, _)
CheckPageFrom(data, i) ==
    IF i > Len(data) THEN ""
    ELSE IF IsSome(data[i].error) THEN "CursorConnectionFetchFailed"
    ELSE IF IsNone(data[i].data) THEN "Internal"
    ELSE CheckPageFrom(data, i + 1)

\* CheckPage that looks at the first item only
CheckPage_FirstItemOnly(data) ==
    IF Len(data) = 0 THEN ""
    ELSE IF IsSome(data[1].error) THEN "CursorConnectionFetchFailed"
    ELSE IF IsNone(data[1].data) THEN "Internal"
    ELSE ""

CheckPage(data) == CheckPageFrom(data, 1)

\* lines 121-122: the item's data is unwrapped, then converted
ItemObject(n) ==
    IF IsNone(n.data) THEN Panic("fetch_owned_objs: data.unwrap()")
    ELSE convert_obj(Unwrap(n.data))

\* line 124
EdgeOf(n) ==
    [cursor |-> ObjectIdToString(Unwrap(n.data).object_id),
     node |-> Unwrap(ItemObject(n).val)]

\* BuildConnection with the two arguments of Connection::new exchanged
BuildConnection_FlagsExchanged(pg) ==
    IF \E i \in 1..Len(pg.data) : ItemObject(pg.data[i]).tag = "Panic"
    THEN LET i == CHOOSE j \in 1..Len(pg.data) :
                      /\ ItemObject(pg.data[j]).tag = "Panic"
                      /\ \A k \in 1..(j - 1) : ItemObject(pg.data[k]).tag = "Ok"
         IN ItemObject(pg.data[i])
    ELSE Ok([has_previous_page |-> pg.has_next_page,
             has_next_page |-> FALSE,
             edges |-> [i \in 1..Len(pg.data) |-> EdgeOf(pg.data[i])]])

\* lines 118-126
BuildConnection(pg) ==
    IF \E i \in 1..Len(pg.data) : ItemObject(pg.data[i]).tag = "Panic"
    THEN LET i == CHOOSE j \in 1..Len(pg.data) :
                      /\ ItemObject(pg.data[j]).tag = "Panic"
                      /\ \A k \in 1..(j - 1) : ItemObject(pg.data[k]).tag = "Ok"
         IN ItemObject(pg.data[i])
    ELSE Ok([has_previous_page |-> FALSE,
             has_next_page |-> pg.has_next_page,
             edges |-> [i \in 1..Len(pg.data) |-> EdgeOf(pg.data[i])]])

\* lines 98-126, from the client's answer on
OwnedObjsOutcome(r) ==
    IF r.tag = "Err" THEN Err("Transport")
    ELSE LET pg == r.val[1] IN
         IF CheckPage(pg.data) # "" THEN Err(CheckPage(pg.data))
         ELSE BuildConnection(pg)

Pages ==
    [data : SeqsUpTo(ObjectResponses, MaxPage), has_next_page : BOOLEAN]

OwnedReplies == {Err("Transport")} \cup {Ok(pg) : pg \in Pages}

\* lines 76-101: up to the await of get_owned_objects
FetchOwnedObjsCall(a) ==
    /\ pc = "idle"
    /\ op' = "fetch_owned_objs"
    /\ args' = a
    /\ replies' = <<>>
    /\ LET e == CheckCursorArgs(a.first, a.after, a.last, a.before)
           c == DecodeCursor(a.after)
       IN IF e # ""
          THEN /\ result' = Failed(e)
               /\ calls' = <<>>
               /\ pc' = "done"
          ELSE IF c.tag = "Err"
          THEN /\ result' = Failed(c.err)
               /\ calls' = <<>>
               /\ pc' = "done"
          ELSE /\ result' = NoResult
               /\ calls' = <<[api |-> "get_owned_objects",
                              owner |-> a.owner,
                              cursor |-> c.val[1],
                              count |-> a.first]>>
               /\ pc' = "await_owned_objects"

\* lines 101-126: resumed with the client's answer
FetchOwnedObjsReply(r) ==
    /\ pc = "await_owned_objects"
    /\ replies' = Append(replies, r)
    /\ result' = Propagate(OwnedObjsOutcome(r))
    /\ pc' = "done"
    /\ UNCHANGED <<op, args, calls>>

\* ---------------------------------------------------------------- fetch_obj
ObjArgs == [address : ObjectIds \cup {3}, version : {None, Some(7)}]

\* line 44: a SuiAddress is a 32-byte array and so is an ObjectID; the
\* conversion from the slice cannot fail on length
ObjectIdFromAddress(address) == Ok(address)

\* SuiPastObjectResponse
PastObjectResponses ==
    {[status |-> "VersionFound", data |-> Some(o)] : o \in NativeObjects}
    \cup {[status |-> st, data |-> None] :
            st \in {"ObjectNotExists", "ObjectDeleted", "VersionNotFound", "VersionTooHigh"}}

PastObjReplies == {Err("Transport")} \cup {Ok(x) : x \in PastObjectResponses}
ObjReplies == {Err("Transport")} \cup {Ok(x) : x \in ObjectResponses}

\* PastObjOutcome that reports a version that was not found as a failure
PastObjOutcome_NotFoundFails(r) ==
    IF r.tag = "Err" THEN Err("Transport")
    ELSE LET x == r.val[1] IN
         IF x.status = "VersionFound"
         THEN LET o == convert_obj(Unwrap(x.data)) IN
              IF o.tag = "Ok" THEN Ok(Some(o.val[1])) ELSE o
         ELSE IF x.status = "VersionNotFound" THEN Err("VersionNotFound")
         ELSE Ok(None)

\* lines 48-55 and 64, from the client's answer on
PastObjOutcome(r) ==
    IF r.tag = "Err" THEN Err("Transport")
    ELSE LET x == r.val[1] IN
         IF x.status = "VersionFound"
         THEN LET o == convert_obj(Unwrap(x.data)) IN
              IF o.tag = "Ok" THEN Ok(Some(o.val[1])) ELSE o
         ELSE Ok(None)

\* lines 56-62 and 64, from the client's answer on
CurrentObjOutcome(r) ==
    IF r.tag = "Err" THEN Err("Transport")
    ELSE LET val == r.val[1] IN
         IF IsSome(val.error) \/ IsNone(val.data) THEN Ok(None)
         ELSE LET o == convert_obj(Unwrap(val.data)) IN
              IF o.tag = "Ok" THEN Ok(Some(o.val[1])) ELSE o

\* lines 43-51 / 57: up to the await of the client call
FetchObjCall(a) ==
    /\ pc = "idle"
    /\ op' = "fetch_obj"
    /\ args' = a
    /\ replies' = <<>>
    /\ LET oid == ObjectIdFromAddress(a.address) IN
       IF oid.tag = "Err"
       THEN /\ result' = Failed(oid.err)
            /\ calls' = <<>>
            /\ pc' = "done"
       ELSE /\ result' = NoResult
            /\ IF IsSome(a.version)
               THEN /\ calls' = <<[api |-> "try_get_parsed_past_object",
                                   oid |-> oid.val[1], version |-> Unwrap(a.version)]>>
                    /\ pc' = "await_past_object"
               ELSE /\ calls' = <<[api |-> "get_object_with_options", oid |-> oid.val[1]]>>
                    /\ pc' = "await_object"

FetchObjPastReply(r) ==
    /\ pc = "await_past_object"
    /\ replies' = Append(replies, r)
    /\ result' = Propagate(PastObjOutcome(r))
    /\ pc' = "done"
    /\ UNCHANGED <<op, args, calls>>

FetchObjCurrentReply(r) ==
    /\ pc = "await_object"
    /\ replies' = Append(replies, r)
    /\ result' = Propagate(CurrentObjOutcome(r))
    /\ pc' = "done"
    /\ UNCHANGED <<op, args, calls>>

\* ---------------------------------------------------------------- fetch_balance
RECURSIVE DecimalString(_)
\* format!("{}", n) of an unsigned integer
DecimalString(n) ==
    IF n < 10 THEN <<HexChars[n + 1]>>
    ELSE Append(DecimalString(n \div 10), HexChars[(n % 10) + 1])

IsDigit(c) == \E i \in 1..10 : HexChars[i] = c

RECURSIVE DigitsToNat(_)
DigitsToNat(s) ==
    IF Len(s) = 0 THEN 0
    ELSE 10 * DigitsToNat(SubSeq(s, 1, Len(s) - 1)) + HexCharVal(s[Len(s)])

\* BigInt::from_str
BigIntFromStr(s) ==
    IF Len(s) = 0 \/ \E i \in 1..Len(s) : ~IsDigit(s[i]) THEN Err("ParseBigInt")
    ELSE Ok(DigitsToNat(s))

\* lines 233-238
convert_bal(b) ==
    LET t == BigIntFromStr(DecimalString(b.total_balance)) IN
    IF t.tag = "Err" THEN Panic("convert_bal: from_str().unwrap()")
    ELSE Ok([coin_object_count |-> b.coin_object_count, total_balance |-> t.val[1]])

BalanceArgs == [address : Addresses, type_ : {None, Some("0x2::sui::SUI")}]

NativeBalances == [coin_object_count : {0, 3}, total_balance : {0, 9, 10, 1234}]

BalanceReplies == {Err("Transport")} \cup {Ok(b) : b \in NativeBalances}

\* lines 129-135
BalanceOutcome(r) == IF r.tag = "Err" THEN Err("Transport") ELSE convert_bal(r.val[1])

FetchBalanceCall(a) ==
    /\ pc = "idle"
    /\ op' = "fetch_balance"
    /\ args' = a
    /\ replies' = <<>>
    /\ result' = NoResult
    /\ calls' = <<[api |-> "get_balance", owner |-> a.address, coin_type |-> a.type_]>>
    /\ pc' = "await_balance"

FetchBalanceReply(r) ==
    /\ pc = "await_balance"
    /\ replies' = Append(replies, r)
    /\ result' = Propagate(BalanceOutcome(r))
    /\ pc' = "done"
    /\ UNCHANGED <<op, args, calls>>

\* ---------------------------------------------------------------- fetch_chain_id
ChainIdReplies == {Err("Transport"), Ok("4c78adac"), Ok("35834a8a")}

\* lines 168-170
ChainIdOutcome(r) == IF r.tag = "Err" THEN Err("Transport") ELSE Ok(r.val[1])

FetchChainIdCall ==
    /\ pc = "idle"
    /\ op' = "fetch_chain_id"
    /\ args' = <<>>
    /\ replies' = <<>>
    /\ result' = NoResult
    /\ calls' = <<[api |-> "get_chain_identifier"]>>
    /\ pc' = "await_chain_id"

FetchChainIdReply(r) ==
    /\ pc = "await_chain_id"
    /\ replies' = Append(replies, r)
    /\ result' = Propagate(ChainIdOutcome(r))
    /\ pc' = "done"
    /\ UNCHANGED <<op, args, calls>>

\* ---------------------------------------------------------------- fetch_protocol_config
\* ProtocolConfigValue
ConfigValues == {[type |-> "u64", n |-> 5], [type |-> "u32", n |-> 12]}

\* format!("{:?}", q) of a ProtocolConfigValue
DebugFormat(q) == <<q.type, "(">> \o DecimalString(q.n) \o <<")">>

\* The attributes are a BTreeMap: iterating it yields the entries by
\* increasing key, each key once.  Keys are numbered in their order.
AttrKeys == 1..(MaxAttrs + 1)

IsKeyOrdered(m) == \A i \in 1..(Len(m) - 1) : m[i].key < m[i + 1].key

NativeAttributes ==
    {m \in SeqsUpTo([key : AttrKeys, value : {None} \cup {Some(q) : q \in ConfigValues}],
                    MaxAttrs) : IsKeyOrdered(m)}

NativeFeatureFlags ==
    {m \in SeqsUpTo([key : 1..2, value : BOOLEAN], 1) : IsKeyOrdered(m)}

NativeProtocolConfigs ==
    [attributes : NativeAttributes, feature_flags : NativeFeatureFlags, protocol_version : {1}]

ProtocolConfigReplies == {Err("Transport")} \cup {Ok(c) : c \in NativeProtocolConfigs}

\* lines 182-190
ConvertAttr(kv) ==
    [key |-> kv.key,
     value |-> IF IsSome(kv.value) THEN DebugFormat(Unwrap(kv.value)) ELSE <<>>]

\* lines 195-198
ConvertFeatureFlag(x) == [key |-> x.key, value |-> x.value]

\* ConvertProtocolConfig that leaves out the attributes without a value
ConvertProtocolConfig_OmitAbsent(cfg) ==
    LET kept == SelectSeq(cfg.attributes, LAMBDA kv : IsSome(kv.value)) IN
    [configs |-> [i \in 1..Len(kept) |-> ConvertAttr(kept[i])],
     feature_flags |->
        [i \in 1..Len(cfg.feature_flags) |-> ConvertFeatureFlag(cfg.feature_flags[i])],
     protocol_version |-> cfg.protocol_version]

\* lines 178-201
ConvertProtocolConfig(cfg) ==
    [configs |-> [i \in 1..Len(cfg.attributes) |-> ConvertAttr(cfg.attributes[i])],
     feature_flags |->
        [i \in 1..Len(cfg.feature_flags) |-> ConvertFeatureFlag(cfg.feature_flags[i])],
     protocol_version |-> cfg.protocol_version]

ProtocolConfigOutcome(r) ==
    IF r.tag = "Err" THEN Err("Transport") ELSE Ok(ConvertProtocolConfig(r.val[1]))

FetchProtocolConfigCall(version) ==
    /\ pc = "idle"
    /\ op' = "fetch_protocol_config"
    /\ args' = [version |-> version]
    /\ replies' = <<>>
    /\ result' = NoResult
    /\ calls' = <<[api |-> "get_protocol_config", version |-> version]>>
    /\ pc' = "await_protocol_config"

FetchProtocolConfigReply(r) ==
    /\ pc = "await_protocol_config"
    /\ replies' = Append(replies, r)
    /\ result' = Propagate(ProtocolConfigOutcome(r))
    /\ pc' = "done"
    /\ UNCHANGED <<op, args, calls>>

\* ---------------------------------------------------------------- fetch_tx
\* digest strings offered to fetch_tx: one that parses, two that do not
DigestStrings == {"8Zk3tx", "", "not-base58!"}

\* TransactionDigest::from_str
TransactionDigestFromStr(d) ==
    IF d = "8Zk3tx" THEN Ok([digest |-> d]) ELSE Err("InvalidDigest")

\* SuiGasData
NativeGasData ==
    [payment : SeqsUpTo(ObjectIds, MaxPayment), owner : Addresses, price : {1000}, budget : {50}]

\* NativeGasCostSummary
NativeGasCostSummaries ==
    {[computation_cost |-> 10, storage_cost |-> 20,
      storage_rebate |-> 5, non_refundable_storage_fee |-> 1]}

\* SuiTransactionBlockResponse: transaction and effects are Options
TxResponses ==
    [transaction : {None} \cup {Some([sender |-> s, gas_data |-> g]) :
                                  s \in Addresses, g \in NativeGasData},
     effects : {None} \cup {Some([transaction_digest |-> "8Zk3tx",
                                  gas_cost_summary |-> c,
                                  gas_object |-> i]) :
                              c \in NativeGasCostSummaries, i \in ObjectIds},
     raw_transaction : {"raw"}]

TxReplies == {Err("Transport")} \cup {Ok(t) : t \in TxResponses}

\* BigInt::from of an unsigned integer
BigIntFrom(n) == Unwrap(BigIntFromStr(DecimalString(n)).val)

\* lines 264-271
convert_to_gas_cost_summary(gcs) ==
    Ok([computation_cost |-> Some(BigIntFrom(gcs.computation_cost)),
        storage_cost |-> Some(BigIntFrom(gcs.storage_cost)),
        storage_rebate |-> Some(BigIntFrom(gcs.storage_rebate)),
        non_refundable_storage_fee |-> Some(BigIntFrom(gcs.non_refundable_storage_fee))])

\* lines 147-148: the two unwraps that follow the client's answer
TxUnwraps(r) ==
    IF r.tag = "Err" THEN Err("Transport")
    ELSE LET tx == r.val[1] IN
         IF IsNone(tx.transaction) THEN Panic("fetch_tx: transaction.unwrap()")
         ELSE IF IsNone(tx.effects) THEN Panic("fetch_tx: effects.unwrap()")
         ELSE Ok(tx)

\* lines 278-290, from the client's answer on
GasEffectsOutcome(gcs, r) ==
    LET gas_summary == convert_to_gas_cost_summary(gcs) IN
    IF gas_summary.tag = "Err" THEN gas_summary
    ELSE IF r.tag = "Err" THEN Err("Transport")
    ELSE LET gas_obj == r.val[1] IN
         IF IsNone(gas_obj.data) THEN Panic("convert_to_gas_effects: data.unwrap()")
         ELSE LET gas_object == convert_obj(Unwrap(gas_obj.data)) IN
              IF gas_object.tag # "Ok" THEN gas_object
              ELSE Ok([gas_object |-> Some(gas_object.val[1]),
                       gas_summary |-> Some(gas_summary.val[1])])

\* lines 251-254: the first response that cannot be converted, 0 if none
FirstBadPayment(obj_responses) ==
    IF \E i \in 1..Len(obj_responses) :
          \/ IsNone(obj_responses[i].data)
          \/ convert_obj(Unwrap(obj_responses[i].data)).tag # "Ok"
    THEN CHOOSE i \in 1..Len(obj_responses) :
            /\ \/ IsNone(obj_responses[i].data)
               \/ convert_obj(Unwrap(obj_responses[i].data)).tag # "Ok"
            /\ \A k \in 1..(i - 1) :
                  /\ IsSome(obj_responses[k].data)
                  /\ convert_obj(Unwrap(obj_responses[k].data)).tag = "Ok"
    ELSE 0

\* lines 246-261, from the client's answer on
GasInputOutcome(gas_data, r) ==
    IF r.tag = "Err" THEN Err("Transport")
    ELSE LET obj_responses == r.val[1]
             bad == FirstBadPayment(obj_responses)
         IN IF bad # 0
            THEN IF IsNone(obj_responses[bad].data)
                 THEN Panic("convert_to_gas_input: data.unwrap()")
                 ELSE convert_obj(Unwrap(obj_responses[bad].data))
            ELSE Ok([gas_sponsor |-> Some([address |-> gas_data.owner]),
                     gas_payment |->
                        Some([i \in 1..Len(obj_responses) |->
                                Unwrap(convert_obj(Unwrap(obj_responses[i].data)).val)]),
                     gas_price |-> Some(BigIntFrom(gas_data.price)),
                     gas_budget |-> Some(BigIntFrom(gas_data.budget))])

\* lines 154-165
TransactionBlockOf(digest, tx, gas_effects, gas_input) ==
    [digest |-> digest,
     effects |-> Some([digest |-> Unwrap(tx.effects).transaction_digest,
                       gas_effects |-> gas_effects]),
     sender |-> Some([address |-> Unwrap(tx.transaction).sender]),
     bcs |-> Some(Base64From(tx.raw_transaction)),
     gas_input |-> Some(gas_input)]

PaymentReplies(n) == {Err("Transport")} \cup {Ok(x) : x \in [1..n -> ObjectResponses]}

\* lines 137-145: up to the await of get_transaction_with_options
FetchTxCall(digest) ==
    /\ pc = "idle"
    /\ op' = "fetch_tx"
    /\ args' = [digest |-> digest]
    /\ replies' = <<>>
    /\ LET tx_digest == TransactionDigestFromStr(digest) IN
       IF tx_digest.tag = "Err"
       THEN /\ result' = Failed(tx_digest.err)
            /\ calls' = <<>>
            /\ pc' = "done"
       ELSE /\ result' = NoResult
            /\ calls' = <<[api |-> "get_transaction_with_options",
                           digest |-> tx_digest.val[1]]>>
            /\ pc' = "await_tx"

\* lines 145-152 and 278-285: up to the await of the gas object
FetchTxReply(r) ==
    /\ pc = "await_tx"
    /\ replies' = Append(replies, r)
    /\ LET u == TxUnwraps(r) IN
       IF u.tag # "Ok"
       THEN /\ result' = Propagate(u)
            /\ calls' = calls
            /\ pc' = "done"
       ELSE /\ result' = NoResult
            /\ calls' = Append(calls, [api |-> "get_object_with_options",
                                       oid |-> Unwrap(u.val[1].effects).gas_object])
            /\ pc' = "await_gas_object"
    /\ UNCHANGED <<op, args>>

\* lines 285-290, 152-164 and 244-249: up to the await of the payment objects
FetchTxGasObjectReply(r) ==
    /\ pc = "await_gas_object"
    /\ replies' = Append(replies, r)
    /\ LET tx == replies[1].val[1]
           e == GasEffectsOutcome(Unwrap(tx.effects).gas_cost_summary, r)
       IN IF e.tag # "Ok"
          THEN /\ result' = Propagate(e)
               /\ calls' = calls
               /\ pc' = "done"
          ELSE /\ result' = NoResult
               /\ calls' = Append(calls, [api |-> "multi_get_object_with_options",
                                          oids |-> Unwrap(tx.transaction).gas_data.payment])
               /\ pc' = "await_payment_objects"
    /\ UNCHANGED <<op, args>>

\* lines 249-261 and 154-165: the client answers for the identifiers asked
FetchTxPaymentReply ==
    /\ pc = "await_payment_objects"
    /\ \E r \in PaymentReplies(Len(calls[3].oids)) :
          /\ replies' = Append(replies, r)
          /\ LET tx == replies[1].val[1]
                 e == GasEffectsOutcome(Unwrap(tx.effects).gas_cost_summary, replies[2])
                 g == GasInputOutcome(Unwrap(tx.transaction).gas_data, r)
             IN IF g.tag # "Ok"
                THEN result' = Propagate(g)
                ELSE result' = Returned(Some(TransactionBlockOf(args.digest, tx,
                                                                 e.val[1], g.val[1])))
    /\ pc' = "done"
    /\ UNCHANGED <<op, args, calls>>

Init ==
    /\ pc = "idle"
    /\ op = "none"
    /\ args = <<>>
    /\ calls = <<>>
    /\ replies = <<>>
    /\ result = NoResult

Next ==
    \/ \E a \in OwnedArgs : FetchOwnedObjsCall(a)
    \/ \E r \in OwnedReplies : FetchOwnedObjsReply(r)
    \/ \E a \in ObjArgs : FetchObjCall(a)
    \/ \E r \in PastObjReplies : FetchObjPastReply(r)
    \/ \E r \in ObjReplies : FetchObjCurrentReply(r)
    \/ \E a \in BalanceArgs : FetchBalanceCall(a)
    \/ \E r \in BalanceReplies : FetchBalanceReply(r)
    \/ FetchChainIdCall
    \/ \E r \in ChainIdReplies : FetchChainIdReply(r)
    \/ \E v \in {None, Some(1)} : FetchProtocolConfigCall(v)
    \/ \E r \in ProtocolConfigReplies : FetchProtocolConfigReply(r)
    \/ \E d \in DigestStrings : FetchTxCall(d)
    \/ \E r \in TxReplies : FetchTxReply(r)
    \/ \E r \in ObjReplies : FetchTxGasObjectReply(r)
    \/ FetchTxPaymentReply

Spec == Init /\ [][Next]_vars

\* ---------------------------------------------------------------- properties
OwnedCalled == op = "fetch_owned_objs"

\* what any successful decoding of the call's `after` argument yields
AfterParses == IsNone(args.after) \/ FromHexLiteral(Unwrap(args.after)).tag = "Ok"

\* C1: a call of fetch_owned_objs with both `before` and `after` present, whatever
\* `first`, `last` and the filter are, has failed with CursorNoBeforeAfter and has
\* made no client call.
C1_BeforeAfterRejected ==
    (OwnedCalled /\ IsSome(args.before) /\ IsSome(args.after)) =>
        /\ pc = "done"
        /\ result = Failed("CursorNoBeforeAfter")
        /\ calls = <<>>

\* the case of C1 with `first` and `last` present as well
C1_Witness ==
    /\ OwnedCalled /\ pc = "done"
    /\ IsSome(args.before) /\ IsSome(args.after)
    /\ IsSome(args.first) /\ IsSome(args.last) /\ IsSome(args.filter)
    /\ result.err = "CursorNoBeforeAfter"

ConflictingCursorErrors == {"CursorNoBeforeAfter", "CursorNoFirstLast"}

\* C2: a call of fetch_owned_objs with both `first` and `last` present, whatever
\* `before` and `after` are, has failed with one of the conflicting-cursor-arguments
\* errors and has made no client call.
C2_FirstLastRejected ==
    (OwnedCalled /\ IsSome(args.first) /\ IsSome(args.last)) =>
        /\ pc = "done"
        /\ result.kind = "err"
        /\ result.err \in ConflictingCursorErrors
        /\ calls = <<>>

\* the case of C2 in which only the first/last check can reject the call
C2_Witness ==
    /\ OwnedCalled /\ pc = "done"
    /\ IsSome(args.first) /\ IsSome(args.last)
    /\ IsNone(args.before) /\ IsSome(args.after)
    /\ result = Failed("CursorNoFirstLast")

\* C3 as stated: a call of fetch_owned_objs with `before` present or `last`
\* present, for all values of the other arguments, has failed with
\* CursorNoReversePagination.
C3_ReverseAlwaysRejected ==
    (OwnedCalled /\ (IsSome(args.before) \/ IsSome(args.last))) =>
        result = Failed("CursorNoReversePagination")

\* C3 amended: a call of fetch_owned_objs with `before` present or `last` present
\* has failed with CursorNoReversePagination unless `before` and `after` are both
\* present or `first` and `last` are both present; in those two cases it has failed
\* with CursorNoBeforeAfter and CursorNoFirstLast respectively.  No client call
\* has been made.
C3_ReverseRejected ==
    (OwnedCalled /\ (IsSome(args.before) \/ IsSome(args.last))) =>
        /\ pc = "done"
        /\ calls = <<>>
        /\ result =
             IF IsSome(args.before) /\ IsSome(args.after) THEN Failed("CursorNoBeforeAfter")
             ELSE IF IsSome(args.first) /\ IsSome(args.last) THEN Failed("CursorNoFirstLast")
             ELSE Failed("CursorNoReversePagination")

\* the case of C3 met by `last` alone
C3_Witness ==
    /\ OwnedCalled /\ pc = "done"
    /\ IsSome(args.last) /\ IsNone(args.before) /\ IsNone(args.first)
    /\ result = Failed("CursorNoReversePagination")

\* C9: a call of fetch_owned_objs without `before` and `last` whose `after` does not
\* parse as an object identifier has failed with InvalidCursor and has made no
\* client call; and whenever get_owned_objects has been called, the arguments had
\* passed the three checks and the cursor passed to the client is the decoded `after`.
C9_InvalidCursorBeforeClient ==
    OwnedCalled =>
        /\ (IsNone(args.before) /\ IsNone(args.last) /\ ~AfterParses) =>
              /\ pc = "done"
              /\ result = Failed("InvalidCursor")
              /\ calls = <<>>
        /\ calls # <<>> =>
              /\ Len(calls) = 1
              /\ calls[1].api = "get_owned_objects"
              /\ IsNone(args.before) /\ IsNone(args.last)
              /\ AfterParses
              /\ calls[1].cursor =
                    IF IsNone(args.after) THEN None
                    ELSE Some(Unwrap(FromHexLiteral(Unwrap(args.after)).val))

\* the case of C9: a cursor with a character that is no hex digit
C9_Witness ==
    /\ OwnedCalled /\ pc = "done"
    /\ IsNone(args.before) /\ IsNone(args.last) /\ IsSome(args.first)
    /\ args.after = Some(<<"0", "x", "g">>)
    /\ result = Failed("InvalidCursor")
    /\ calls = <<>>

\* the page of a call of fetch_owned_objs that the client has answered
OwnedAnswered ==
    OwnedCalled /\ pc = "done" /\ Len(replies) = 1 /\ replies[1].tag = "Ok"

OwnedPage == replies[1].val[1]

HasItemError(data) == \E i \in 1..Len(data) : IsSome(data[i].error)

\* an item with neither data nor error comes before every item with an error
NeitherComesFirst(data) ==
    \E k \in 1..Len(data) :
        /\ IsNone(data[k].data)
        /\ \A j \in 1..k : IsNone(data[j].error)

\* C4 as stated: whenever some item of the client's page, at any position, carries
\* an error, fetch_owned_objs has failed with CursorConnectionFetchFailed and has
\* returned no connection.
C4_ItemErrorFailsPage ==
    (OwnedAnswered /\ HasItemError(OwnedPage.data)) =>
        result = Failed("CursorConnectionFetchFailed")

\* C4 amended: whenever some item of the client's page carries an error,
\* fetch_owned_objs has failed and has returned no connection, so no edge for any
\* item; the failure is CursorConnectionFetchFailed unless an item with neither
\* data nor error comes before the first item with an error, and Internal then.
C4_ItemErrorFailsPageInOrder ==
    (OwnedAnswered /\ HasItemError(OwnedPage.data)) =>
        /\ result.kind = "err"
        /\ result.val = <<>>
        /\ result.err = IF NeitherComesFirst(OwnedPage.data)
                        THEN "Internal"
                        ELSE "CursorConnectionFetchFailed"

\* the case of C4: the second of two items carries the error, the first carries data
C4_Witness ==
    /\ OwnedAnswered
    /\ Len(OwnedPage.data) = 2
    /\ IsSome(OwnedPage.data[1].data) /\ IsNone(OwnedPage.data[1].error)
    /\ IsSome(OwnedPage.data[2].error)
    /\ result = Failed("CursorConnectionFetchFailed")

ObjCalled == op = "fetch_obj"

\* the client answered a fetch_obj call and its answer holds no object
NoMatchingObject ==
    /\ ObjCalled /\ Len(replies) = 1 /\ replies[1].tag = "Ok"
    /\ IF IsSome(args.version)
       THEN replies[1].val[1].status # "VersionFound"
       ELSE IsSome(replies[1].val[1].error) \/ IsNone(replies[1].val[1].data)

\* C5: when the client's answer to fetch_obj holds no object (with a version: any
\* response other than VersionFound; without: a response with an error or without
\* data), fetch_obj has returned Ok(None) and no error.
C5_NoObjectIsEmpty ==
    NoMatchingObject => (pc = "done" /\ result = Returned(None))

\* the case of C5: the version asked for was not found
C5_Witness ==
    /\ NoMatchingObject /\ pc = "done"
    /\ IsSome(args.version)
    /\ replies[1].val[1].status = "VersionNotFound"
    /\ result = Returned(None)

\* C6: no operation of the adapter ends in a panic, whatever the client answers.
C6_NeverPanics == result.kind # "panic"

ObjectKinds == {"Owned", "Child", "Shared", "Immutable"}

\* the converted object o classifies the native record s as C7 says
ClassifiedAs(s, o) ==
    LET w == Unwrap(s.owner) IN
    /\ IsSome(o.kind)
    /\ Unwrap(o.kind) \in ObjectKinds
    /\ w.variant = "AddressOwner" => (o.kind = Some("Owned") /\ o.owner = Some(w.addr))
    /\ w.variant = "ObjectOwner" => o.kind = Some("Child")
    /\ w.variant = "Shared" => o.kind = Some("Shared")
    /\ w.variant = "Immutable" => (o.kind = Some("Immutable") /\ IsNone(o.owner))

\* C7: every object convert_obj has produced, returned by fetch_obj or as the node
\* of an edge of fetch_owned_objs, has a kind, one of the four, fixed by the native
\* owner variant: AddressOwner gives Owned and the owner's address, ObjectOwner
\* Child, Shared Shared, Immutable Immutable and no owner address.
C7_OwnershipClassified ==
    /\ (ObjCalled /\ result.kind = "ok" /\ IsSome(result.val[1])) =>
          ClassifiedAs(Unwrap(replies[1].val[1].data), Unwrap(result.val[1]))
    /\ (OwnedCalled /\ result.kind = "ok") =>
          \A i \in 1..Len(OwnedPage.data) :
              ClassifiedAs(Unwrap(OwnedPage.data[i].data), result.val[1].edges[i].node)

\* the case of C7: an object-owned record, converted by fetch_obj
C7_Witness ==
    /\ ObjCalled /\ pc = "done" /\ result.kind = "ok" /\ IsSome(result.val[1])
    /\ Unwrap(Unwrap(replies[1].val[1].data).owner).variant = "ObjectOwner"
    /\ Unwrap(result.val[1]).kind = Some("Child")

ConfigAnswered ==
    op = "fetch_protocol_config" /\ pc = "done" /\ Len(replies) = 1 /\ replies[1].tag = "Ok"

\* C8: fetch_protocol_config has returned one attribute per native attribute, in
\* the same order and with the same key; an attribute without a native value is
\* kept, its value the empty string, and one with a value has a non-empty string.
C8_AttributesKept ==
    ConfigAnswered =>
        LET native == replies[1].val[1].attributes IN
        /\ result.kind = "ok"
        /\ Len(result.val[1].configs) = Len(native)
        /\ \A i \in 1..Len(native) :
              /\ result.val[1].configs[i].key = native[i].key
              /\ IsNone(native[i].value) => result.val[1].configs[i].value = <<>>
              /\ IsSome(native[i].value) => result.val[1].configs[i].value # <<>>

\* the case of C8: the first of two attributes has no value, the second has one
C8_Witness ==
    /\ ConfigAnswered
    /\ Len(replies[1].val[1].attributes) = 2
    /\ IsNone(replies[1].val[1].attributes[1].value)
    /\ IsSome(replies[1].val[1].attributes[2].value)
    /\ result.kind = "ok"
    /\ result.val[1].configs[1].value = <<>>

\* C10: a connection returned by fetch_owned_objs has one edge per item of the
\* client's page, in the page's order, keyed by the string form of the item's
\* object identifier; has_next_page is the client's flag, has_previous_page FALSE.
C10_ConnectionMirrorsPage ==
    (OwnedCalled /\ result.kind = "ok") =>
        LET c == result.val[1] IN
        /\ OwnedAnswered
        /\ Len(c.edges) = Len(OwnedPage.data)
        /\ \A i \in 1..Len(OwnedPage.data) :
              /\ c.edges[i].cursor = ObjectIdToString(Unwrap(OwnedPage.data[i].data).object_id)
              /\ c.edges[i].node.address = Unwrap(OwnedPage.data[i].data).object_id
        /\ c.has_next_page = OwnedPage.has_next_page
        /\ c.has_previous_page = FALSE

\* the case of C10: a page of two items, identifier 2 before 1, with a next page
C10_Witness ==
    /\ OwnedCalled /\ result.kind = "ok"
    /\ Len(OwnedPage.data) = 2
    /\ Unwrap(OwnedPage.data[1].data).object_id = 2
    /\ Unwrap(OwnedPage.data[2].data).object_id = 1
    /\ OwnedPage.has_next_page
    /\ result.val[1].edges[1].cursor[Len(result.val[1].edges[1].cursor)] = "2"
    /\ result.val[1].has_next_page
====
